---- MODULE Spec2Model ----
(***************************************************************************)
(* A model of wrig's front end: the Scanner (src/components/scanner.rs)    *)
(* and the recursive-descent expression Parser (src/components/parser.rs). *)
(* Characters are one-character strings, a source text is a sequence of    *)
(* characters (Scanner.source is a Vec<char>), a token is a record with    *)
(* the fields of Token (token_components/token.rs).                        *)
(***************************************************************************)
EXTENDS Integers, Sequences, FiniteSets, TLC

VARIABLES
    debug_assertions, \* build profile: TRUE when debug_assert! is compiled in
    source,           \* Scanner.source
    tokens,           \* Scanner.tokens
    start,            \* Scanner.start
    current,          \* Scanner.current
    line,             \* Scanner.line
    errors,           \* Scanner.errors
    pc,               \* where the caller of the Scanner stands
    calls,            \* number of scan_tokens invocations that have returned
    returned,         \* what each invocation of scan_tokens returned
    parser_tokens,    \* Parser.tokens
    parser_current,   \* Parser.current
    stack,            \* the parser's call stack, innermost call last
    result,           \* the value the call that returned last has returned
    parser_pc,        \* where the caller of the Parser stands
    parsed            \* what each call of Parser::parse has returned

scanner_vars ==
    <<debug_assertions, source, tokens, start, current, line, errors, pc, calls,
      returned>>

parser_vars == <<parser_tokens, parser_current, stack, result, parser_pc, parsed>>

vars == <<scanner_vars, parser_vars>>

-----------------------------------------------------------------------------
(* Bounds of the model *)

MaxLen == 3

MaxCalls == 2

(* The characters source texts are drawn from: at least one character for  *)
(* every arm of scan_token's match.                                        *)
Alphabet ==
    {"(", "=", "!", "<", ">", "/", "\"", "1", ".", "a", "_", " ", "\n", "#"}

(* The sequences of up to n elements of S. *)
SeqsUpTo(S, n) == UNION {[1..k -> S] : k \in 0..n}

Sources == SeqsUpTo(Alphabet, MaxLen)

(* The texts of the arms of add_identifier_token's match. *)
KeywordTexts ==
    {<<"a", "n", "d">>, <<"c", "l", "a", "s", "s">>, <<"e", "l", "s", "e">>,
     <<"t", "r", "u", "e">>, <<"f", "a", "l", "s", "e">>, <<"f", "o", "r">>,
     <<"f", "u", "n">>, <<"i", "f">>, <<"n", "i", "l">>, <<"o", "r">>,
     <<"p", "r", "i", "n", "t">>, <<"r", "e", "t", "u", "r", "n">>,
     <<"s", "u", "p", "e", "r">>, <<"t", "h", "i", "s">>, <<"v", "a", "r">>,
     <<"w", "h", "i", "l", "e">>}

(* Longer source texts: a number with two dots; every keyword, alone, with *)
(* a letter or a digit after it, without its last letter; While with its   *)
(* first letter in upper case; a comment after a token, with a token on    *)
(* the next line; a string, a number and a parenthesis.                    *)
ExampleSources ==
    {<<"1", ".", "2", ".", "3">>, <<"W", "h", "i", "l", "e">>,
     <<"c", "l", "a", "s", "s", "i", "f", "y">>,
     <<"<", "=", " ", "/", "/", " ", "c", "\n", "1">>,
     <<"\"", "a", "\"", "1", "(">>}
        \cup KeywordTexts
        \cup {Append(k, "x") : k \in KeywordTexts}
        \cup {Append(k, "1") : k \in KeywordTexts}
        \cup {SubSeq(k, 1, Len(k) - 1) : k \in KeywordTexts}

-----------------------------------------------------------------------------
(* Characters *)

NL == "\n"

Quote == "\""

(* The character '\0', the lexeme of the EOF token. *)
Nul == "NUL"

Digits == {"0", "1", "2", "3", "4", "5", "6", "7", "8", "9"}

DigitVal ==
    "0" :> 0 @@ "1" :> 1 @@ "2" :> 2 @@ "3" :> 3 @@ "4" :> 4 @@
    "5" :> 5 @@ "6" :> 6 @@ "7" :> 7 @@ "8" :> 8 @@ "9" :> 9

Letters ==
    {"a", "b", "c", "d", "e", "f", "g", "h", "i", "j", "k", "l", "m",
     "n", "o", "p", "q", "r", "s", "t", "u", "v", "w", "x", "y", "z",
     "A", "B", "C", "D", "E", "F", "G", "H", "I", "J", "K", "L", "M",
     "N", "O", "P", "Q", "R", "S", "T", "U", "V", "W", "X", "Y", "Z"}

is_digit(c) == c \in Digits

is_ascii_alphabetic(c) == c \in Letters

is_ascii_alphanumeric(c) == c \in Letters \cup Digits

-----------------------------------------------------------------------------
(* Option, LiteralType, Token, ScannerError *)

None == [some |-> FALSE]

Some(v) == [some |-> TRUE, val |-> v]

NoLiteral == [type |-> "None"]

LiteralStr(chars) == [type |-> "Str", chars |-> chars]

LiteralNumber(n) == [type |-> "Number", num |-> n]

Token(token_type, ln, lexeme, literal) ==
    [token |-> token_type, line |-> ln, lexeme |-> lexeme, literal |-> literal]

UnexpectedEof == [type |-> "UnexpectedEof"]

UnterminatedString(ln) == [type |-> "UnterminatedString", line |-> ln]

InvalidNumber(received, ln) ==
    [type |-> "InvalidNumber", received |-> received, line |-> ln]

UnexpectedToken(lexeme, ln) ==
    [type |-> "UnexpectedToken", lexeme |-> lexeme, line |-> ln]

-----------------------------------------------------------------------------
(* f64 values of the lexemes str::parse::<f64> is given here: a decimal    *)
(* numeral is the pair <<mantissa, scale>> with value mantissa / 10^scale, *)
(* normalised (no trailing zero in the fraction) so that equal values are  *)
(* equal pairs: "3" and "3.0" both denote <<3, 0>>.                        *)

RECURSIVE DigitsToNat(_)
DigitsToNat(ds) ==
    IF ds = <<>> THEN 0
    ELSE DigitsToNat(SubSeq(ds, 1, Len(ds) - 1)) * 10 + DigitVal[ds[Len(ds)]]

RECURSIVE Normalise(_, _)
Normalise(mant, scale) ==
    IF scale > 0 /\ mant % 10 = 0 THEN Normalise(mant \div 10, scale - 1)
    ELSE <<mant, scale>>

(* parse: Some(value) for digits with at most one ".", else None (Err).    *)
ParseF64(text) ==
    LET dots == {i \in 1..Len(text) : text[i] = "."}
        digs == {i \in 1..Len(text) : is_digit(text[i])}
    IN  IF dots \cup digs # 1..Len(text) \/ Cardinality(dots) > 1 \/ digs = {}
        THEN None
        ELSE LET ds    == SelectSeq(text, is_digit)
                 dot   == IF dots = {} THEN Len(text) + 1 ELSE CHOOSE i \in dots : TRUE
                 scale == IF dots = {} THEN 0 ELSE Len(text) - dot
             IN  Some(Normalise(DigitsToNat(ds), scale))

-----------------------------------------------------------------------------
(* The Scanner. Its methods take the scanner as the record                 *)
(* [source, tokens, start, current, line, panic] and return the record     *)
(* after the call, with the method's return value where it has one.        *)
(* panic is set by a failed debug_assert!/expect: the process aborts.      *)

Self ==
    [source |-> source, tokens |-> tokens, start |-> start,
     current |-> current, line |-> line, panic |-> FALSE]

is_at_end(s) == s.current >= Len(s.source)

peek(s) == IF is_at_end(s) THEN None ELSE Some(s.source[s.current + 1])

peek_next(s) ==
    IF s.current + 1 < Len(s.source) THEN Some(s.source[s.current + 2]) ELSE None

(* The closure tests are given as the set of characters the closure accepts. *)
current_char_test(s, accepted) ==
    LET c == peek(s) IN c.some /\ c.val \in accepted

next_char_test(s, accepted) ==
    LET c == peek_next(s) IN c.some /\ c.val \in accepted

advance(s) ==
    LET current_char == peek(s)
    IN  IF current_char.some
        THEN [s |-> [s EXCEPT !.current = @ + 1], ret |-> current_char]
        ELSE [s |-> s, ret |-> None]

(* conditional_advance without the tests for the end of the source: the    *)
(* cursor moves on even when no character is left.                         *)
conditional_advance_unchecked(s, test) ==
    [s |-> [s EXCEPT !.current = @ + 1],
     ret |-> peek(s).some /\ peek(s).val = test]

(* current += 1 is executed whenever a character is there, whether or not  *)
(* it equals test.                                                         *)
conditional_advance(s, test) ==
    IF is_at_end(s) THEN [s |-> s, ret |-> FALSE]
    ELSE LET current_char == peek(s)
         IN  IF current_char.some
             THEN [s |-> [s EXCEPT !.current = @ + 1], ret |-> current_char.val = test]
             ELSE [s |-> s, ret |-> FALSE]

(* None stands for the panic of the debug assertion (debug builds) or of   *)
(* the expect on an out-of-bounds range (every build).                     *)
get_source_slice(s, from, to) ==
    IF (debug_assertions /\ from = to) \/ from > to \/ to > Len(s.source)
    THEN None
    ELSE Some(SubSeq(s.source, from + 1, to))

(* add_token that leaves the literal out of the token. *)
add_token_without_literal(s, token_type, literal) ==
    LET lexeme == get_source_slice(s, s.start, s.current)
    IN  IF ~lexeme.some THEN [s EXCEPT !.panic = TRUE]
        ELSE [s EXCEPT !.tokens = Append(@, Token(token_type, s.line, lexeme.val, NoLiteral))]

add_token(s, token_type, literal) ==
    LET lexeme == get_source_slice(s, s.start, s.current)
    IN  IF ~lexeme.some THEN [s EXCEPT !.panic = TRUE]
        ELSE [s EXCEPT !.tokens = Append(@, Token(token_type, s.line, lexeme.val, literal))]

Ok(s) == [s |-> s, err |-> None]

Err(s, e) == [s |-> s, err |-> Some(e)]

Keywords ==
    <<"a", "n", "d">> :> "And" @@
    <<"c", "l", "a", "s", "s">> :> "Class" @@
    <<"e", "l", "s", "e">> :> "Else" @@
    <<"t", "r", "u", "e">> :> "True" @@
    <<"f", "a", "l", "s", "e">> :> "False" @@
    <<"f", "o", "r">> :> "For" @@
    <<"f", "u", "n">> :> "Fun" @@
    <<"i", "f">> :> "If" @@
    <<"n", "i", "l">> :> "Nil" @@
    <<"o", "r">> :> "Or" @@
    <<"p", "r", "i", "n", "t">> :> "Print" @@
    <<"r", "e", "t", "u", "r", "n">> :> "Return" @@
    <<"s", "u", "p", "e", "r">> :> "Super" @@
    <<"t", "h", "i", "s">> :> "This" @@
    <<"v", "a", "r">> :> "Var" @@
    <<"w", "h", "i", "l", "e">> :> "While"

(* The characters the loop of add_identifier_token goes on over.           *)
IdentifierContinue == Letters \cup Digits

RECURSIVE IdentifierRun(_)
IdentifierRun(s) ==
    IF current_char_test(s, IdentifierContinue) THEN IdentifierRun(advance(s).s) ELSE s

(* add_identifier_token looking the keyword up by the beginning of the    *)
(* text instead of the whole text.                                         *)
add_identifier_token_by_prefix(s0) ==
    LET s    == IdentifierRun(s0)
        text == get_source_slice(s, s.start, s.current)
    IN  IF ~text.some THEN Ok([s EXCEPT !.panic = TRUE])
        ELSE LET starts == {k \in DOMAIN Keywords :
                               Len(k) <= Len(text.val) /\ SubSeq(text.val, 1, Len(k)) = k}
                 token_type ==
                     IF starts # {} THEN Keywords[CHOOSE k \in starts : TRUE]
                     ELSE "Identifier"
             IN  Ok(add_token(s, token_type, NoLiteral))

add_identifier_token(s0) ==
    LET s    == IdentifierRun(s0)
        text == get_source_slice(s, s.start, s.current)
    IN  IF ~text.some THEN Ok([s EXCEPT !.panic = TRUE])
        ELSE LET token_type ==
                     IF text.val \in DOMAIN Keywords THEN Keywords[text.val]
                     ELSE "Identifier"
             IN  Ok(add_token(s, token_type, NoLiteral))

RECURSIVE StringBody(_)
StringBody(s) ==
    IF ~current_char_test(s, {Quote}) /\ ~is_at_end(s)
    THEN StringBody(advance(IF current_char_test(s, {NL})
                            THEN [s EXCEPT !.line = @ + 1] ELSE s).s)
    ELSE s

(* add_string_token without the test for the end of input: the text up to *)
(* the end is taken as the string.                                         *)
add_string_token_unchecked(s0) ==
    LET s     == StringBody(s0)
        t     == advance(s).s
        value == get_source_slice(t, t.start + 1, Len(t.source))
    IN  IF ~value.some THEN Err(s, UnterminatedString(s.line))
        ELSE Ok(add_token(t, "Str", LiteralStr(value.val)))

add_string_token(s0) ==
    LET s == StringBody(s0)
    IN  IF is_at_end(s) THEN Err(s, UnterminatedString(s.line))
        ELSE LET t     == advance(s).s
                 value == get_source_slice(t, t.start + 1, t.current - 1)
             IN  IF ~value.some THEN Ok([t EXCEPT !.panic = TRUE])
                 ELSE Ok(add_token(t, "Str", LiteralStr(value.val)))

RECURSIVE DigitRun(_)
DigitRun(s) ==
    IF current_char_test(s, Digits) THEN DigitRun(advance(s).s) ELSE s

(* add_number_token without the lookahead behind the '.': a '.' after the *)
(* digits is always taken into the lexeme.                                 *)
add_number_token_greedy_dot(s0) ==
    LET s1 == DigitRun(s0)
        s  == IF current_char_test(s1, {"."})
              THEN DigitRun(advance(s1).s)
              ELSE s1
        source_slice == get_source_slice(s, s.start, s.current)
    IN  IF ~source_slice.some THEN Ok([s EXCEPT !.panic = TRUE])
        ELSE LET source_slice_f == ParseF64(source_slice.val)
             IN  IF ~source_slice_f.some
                 THEN Err(s, InvalidNumber(source_slice.val, s.line))
                 ELSE Ok(add_token(s, "Number", LiteralNumber(source_slice_f.val)))

add_number_token(s0) ==
    LET s1 == DigitRun(s0)
        s  == IF current_char_test(s1, {"."}) /\ next_char_test(s1, Digits)
              THEN DigitRun(advance(s1).s)
              ELSE s1
        source_slice == get_source_slice(s, s.start, s.current)
    IN  IF ~source_slice.some THEN Ok([s EXCEPT !.panic = TRUE])
        ELSE LET source_slice_f == ParseF64(source_slice.val)
             IN  IF ~source_slice_f.some
                 THEN Err(s, InvalidNumber(source_slice.val, s.line))
                 ELSE Ok(add_token(s, "Number", LiteralNumber(source_slice_f.val)))

(* The comment loop going on over the newline as well. *)
RECURSIVE SkipCommentAndNewline(_)
SkipCommentAndNewline(s) ==
    IF is_at_end(s) THEN s
    ELSE IF current_char_test(s, {NL}) THEN advance(s).s
    ELSE SkipCommentAndNewline(advance(s).s)

RECURSIVE SkipComment(_)
SkipComment(s) ==
    IF ~is_at_end(s) /\ ~current_char_test(s, {NL}) THEN SkipComment(advance(s).s)
    ELSE s

(* The arms of scan_token's match without a guard that emit one token.     *)
SingleCharToken ==
    "(" :> "LeftParen" @@ ")" :> "RightParen" @@ "{" :> "LeftBrace" @@
    "}" :> "RightBrace" @@ "," :> "Comma" @@ "." :> "Dot" @@ "-" :> "Minus" @@
    "+" :> "Plus" @@ ";" :> "Semicolon" @@ "*" :> "Star"

(* The arms guarded by conditional_advance('=').                           *)
TwoCharToken ==
    "=" :> "EqualEqual" @@ "!" :> "BangEqual" @@ "<" :> "LessEqual" @@
    ">" :> "GreaterEqual"

(* The match of scan_token. The arms are tried in order; a guard is        *)
(* evaluated (and has its effect on current) only when the arm's pattern   *)
(* matches c, and a false guard sends c on to the later arms. The only     *)
(* unguarded arm for one of '=', '!', '<', '>' is that of '='.             *)
scan_token(s0) ==
    LET a == advance(s0)
    IN  IF ~a.ret.some THEN Err(s0, UnexpectedEof)
        ELSE
        LET c == a.ret.val
            g == IF c \in DOMAIN TwoCharToken THEN conditional_advance(a.s, "=")
                 ELSE IF c = "/" THEN conditional_advance(a.s, "/")
                 ELSE [s |-> a.s, ret |-> FALSE]
            s == g.s
        IN  IF c \in DOMAIN SingleCharToken
                THEN Ok(add_token(s, SingleCharToken[c], NoLiteral))
            ELSE IF c \in DOMAIN TwoCharToken /\ g.ret
                THEN Ok(add_token(s, TwoCharToken[c], NoLiteral))
            ELSE IF c = "=" THEN Ok(add_token(s, "Equal", NoLiteral))
            ELSE IF c = "/" /\ g.ret THEN Ok(SkipComment(s))
            ELSE IF c = "/" THEN Ok(add_token(s, "Slash", NoLiteral))
            ELSE IF c = Quote THEN add_string_token(s)
            ELSE IF is_digit(c) THEN add_number_token(s)
            ELSE IF is_ascii_alphabetic(c) \/ c = "_" THEN add_identifier_token(s)
            ELSE IF c \in {" ", "\r", "\t"} THEN Ok(s)
            ELSE IF c = NL THEN Ok([s EXCEPT !.line = @ + 1])
            ELSE Err(s, UnexpectedToken(<<c>>, s.line))

EofToken(ln) == Token("EOF", ln, <<Nul>>, NoLiteral)

-----------------------------------------------------------------------------
(* Scanner::new, then the caller's invocations of scan_tokens.             *)

Init ==
    /\ debug_assertions \in BOOLEAN
    /\ source \in Sources \cup ExampleSources
    /\ tokens = <<>>
    /\ start = 0
    /\ current = 0
    /\ line = 1
    /\ errors = <<>>
    /\ pc = "idle"
    /\ calls = 0
    /\ returned = <<>>
    /\ parser_tokens = <<>>
    /\ parser_current = 0
    /\ stack = <<>>
    /\ result = None
    /\ parser_pc = "none"
    /\ parsed = <<>>

(* scan_tokens is entered. *)
ScanTokensCall ==
    /\ pc = "idle"
    /\ calls < MaxCalls
    /\ pc' = "scanning"
    /\ UNCHANGED <<debug_assertions, source, tokens, start, current, line, errors,
                   calls, returned>>
    /\ UNCHANGED parser_vars

(* One iteration of the loop of scan_tokens. *)
ScanToken ==
    /\ pc = "scanning"
    /\ ~is_at_end(Self)
    /\ LET token_scan_result == scan_token([Self EXCEPT !.start = current])
           s == token_scan_result.s
       IN  /\ start' = s.start
           /\ current' = s.current
           /\ line' = s.line
           /\ tokens' = s.tokens
           /\ IF s.panic
              THEN /\ pc' = "panicked"
                   /\ errors' = errors
              ELSE /\ pc' = pc
                   /\ errors' = IF token_scan_result.err.some
                                THEN Append(errors, token_scan_result.err.val)
                                ELSE errors
    /\ UNCHANGED <<debug_assertions, source, calls, returned>>
    /\ UNCHANGED parser_vars

(* scan_tokens returning its vectors without the push of EOF. *)
ScanTokensReturnNoEof ==
    /\ pc = "scanning"
    /\ is_at_end(Self)
    /\ tokens' = tokens
    /\ returned' = Append(returned, [tokens |-> tokens', errors |-> errors])
    /\ calls' = calls + 1
    /\ pc' = "idle"
    /\ UNCHANGED <<debug_assertions, source, start, current, line, errors>>
    /\ UNCHANGED parser_vars

(* The loop of scan_tokens ends: EOF is pushed and the two vectors returned. *)
ScanTokensReturn ==
    /\ pc = "scanning"
    /\ is_at_end(Self)
    /\ tokens' = Append(tokens, EofToken(line))
    /\ returned' = Append(returned, [tokens |-> tokens', errors |-> errors])
    /\ calls' = calls + 1
    /\ pc' = "idle"
    /\ UNCHANGED <<debug_assertions, source, start, current, line, errors>>
    /\ UNCHANGED parser_vars

Next ==
    \/ ScanTokensCall
    \/ ScanToken
    \/ ScanTokensReturn

Spec == Init /\ [][Next]_vars

-----------------------------------------------------------------------------
(* Expr (parser_components/expr.rs) and ParserError *)

Binary(left, operator, right) ==
    [type |-> "Binary", left |-> left, operator |-> operator, right |-> right]

Grouping(inner) == [type |-> "Grouping", inner |-> inner]

Literal(value) == [type |-> "Literal", value |-> value]

Unary(operator, right) == [type |-> "Unary", operator |-> operator, right |-> right]

LiteralBool(b) == [type |-> "Bool", bool |-> b]

LiteralNil == [type |-> "Nil"]

ParseError(message) == [type |-> "ParseError", message |-> message]

PrimaryError(ln) == [type |-> "PrimaryError", line |-> ln]

UndefinedLiteral(ln) == [type |-> "UndefinedLiteral", line |-> ln]

ExprOk(expr) == [ok |-> TRUE, expr |-> expr]

ExprErr(error) == [ok |-> FALSE, error |-> error]

-----------------------------------------------------------------------------
(* The Parser's cursor methods. They take the parser as the record         *)
(* [tokens, current, panic] and return the record after the call, with the *)
(* return value where there is one. panic is set when peek or previous     *)
(* index outside the tokens (debug_assert!, and unwrap of None without it) *)
(* and when current - 1 underflows.                                        *)

ParserSelf == [tokens |-> parser_tokens, current |-> parser_current, panic |-> FALSE]

(* peek's index is inside the tokens. *)
peek_in_bounds(p) == p.current < Len(p.tokens)

parser_peek(p) == p.tokens[p.current + 1]

(* previous' index current - 1 is inside the tokens. *)
previous_in_bounds(p) == p.current >= 1 /\ p.current - 1 < Len(p.tokens)

previous(p) == p.tokens[p.current]

parser_is_at_end(p) == parser_peek(p).token = "EOF"

current_eq(p, check_token) ==
    IF parser_is_at_end(p) THEN FALSE ELSE parser_peek(p).token = check_token

(* advance without the test for the end: current is incremented always.  *)
parser_advance_always(p) ==
    IF ~peek_in_bounds(p) THEN [p EXCEPT !.panic = TRUE]
    ELSE LET q == [p EXCEPT !.current = @ + 1]
         IN  IF previous_in_bounds(q) THEN q ELSE [q EXCEPT !.panic = TRUE]

parser_advance(p) ==
    IF ~peek_in_bounds(p) THEN [p EXCEPT !.panic = TRUE]
    ELSE LET q == IF ~parser_is_at_end(p) THEN [p EXCEPT !.current = @ + 1] ELSE p
         IN  IF previous_in_bounds(q) THEN q ELSE [q EXCEPT !.panic = TRUE]

(* check_token_types is the slice of kinds, a sequence.                    *)
match_token_type(p, check_token_types) ==
    IF check_token_types = <<>> THEN [p |-> p, ret |-> FALSE]
    ELSE IF ~peek_in_bounds(p) THEN [p |-> [p EXCEPT !.panic = TRUE], ret |-> FALSE]
    ELSE IF \E i \in 1..Len(check_token_types) : current_eq(p, check_token_types[i])
         THEN [p |-> parser_advance(p), ret |-> TRUE]
         ELSE [p |-> p, ret |-> FALSE]

(* consume: the token is matched (and so passed) by match_token_type, and  *)
(* advance is called once more on success.                                 *)
consume(p, token_type, on_fail_msg) ==
    LET m == match_token_type(p, <<token_type>>)
    IN  IF m.p.panic THEN [p |-> m.p, ret |-> None]
        ELSE IF m.ret THEN [p |-> parser_advance(m.p), ret |-> Some(ExprOk(None))]
        ELSE [p |-> m.p, ret |-> Some(ExprErr(ParseError(on_fail_msg)))]

-----------------------------------------------------------------------------
(* The descent. A frame of the call stack is a call of one of expression,  *)
(* equality, comparison, term, factor, unary, primary: its function, where *)
(* it stands (at its beginning, or waiting for the call it made), and its  *)
(* locals expr and op.                                                     *)

Frame(fn, at) == [fn |-> fn, at |-> at, expr |-> None, op |-> None]

Top == stack[Len(stack)]

Callers == SubSeq(stack, 1, Len(stack) - 1)

Running(fn, at) ==
    /\ parser_pc = "running"
    /\ stack # <<>>
    /\ Top.fn = fn
    /\ Top.at = at

(* The call on top of the stack returns r to its caller. *)
Return(r) ==
    /\ stack' = Callers
    /\ result' = Some(r)
    /\ parser_pc' = IF Callers = <<>> THEN "done" ELSE "running"
    /\ parsed' = IF Callers = <<>> THEN Append(parsed, r) ELSE parsed

(* The call on top of the stack goes on as frame and calls callee. *)
Call(frame, callee) ==
    /\ stack' = Callers \o <<frame, Frame(callee, "begin")>>
    /\ result' = None
    /\ parser_pc' = "running"
    /\ UNCHANGED parsed

(* The process aborts. *)
Panic ==
    /\ parser_pc' = "panicked"
    /\ UNCHANGED <<stack, result, parsed>>

(* The parses made of one token sequence, each with a Parser of its own.   *)
MaxParses == 2

(* A Parser that is handed the cursor of the one before it. *)
new_keeping_cursor ==
    /\ parser_pc = "done"
    /\ Len(parsed) < MaxParses
    /\ stack' = <<>>
    /\ result' = None
    /\ parser_pc' = "new"
    /\ UNCHANGED <<parser_tokens, parser_current, parsed>>
    /\ UNCHANGED scanner_vars

(* Parser::new on the tokens a Parser has parsed before: tokens is the     *)
(* same borrowed vector, current is 0.                                     *)
new ==
    /\ parser_pc = "done"
    /\ Len(parsed) < MaxParses
    /\ parser_current' = 0
    /\ stack' = <<>>
    /\ result' = None
    /\ parser_pc' = "new"
    /\ UNCHANGED <<parser_tokens, parsed>>
    /\ UNCHANGED scanner_vars

(* Parser::parse is called on a new Parser. *)
parse ==
    /\ parser_pc = "new"
    /\ stack' = <<Frame("expression", "begin")>>
    /\ parser_pc' = "running"
    /\ UNCHANGED <<parser_tokens, parser_current, result, parsed>>
    /\ UNCHANGED scanner_vars

(* expression is equality. *)
expression ==
    /\ Running("expression", "begin")
    /\ stack' = Callers \o <<Frame("equality", "begin")>>
    /\ UNCHANGED <<parser_tokens, parser_current, result, parser_pc, parsed>>
    /\ UNCHANGED scanner_vars

(* The expression of a binary level once an operand has been parsed: the  *)
(* first operand itself, later Binary(expr, op, right_expr).               *)
FoldSwapped(frame, operand) ==
    IF frame.at = "operand" THEN operand
    ELSE Binary(operand, frame.op, frame.expr)

Fold(frame, operand) ==
    IF frame.at = "operand" THEN operand
    ELSE Binary(frame.expr, frame.op, operand)

(* A binary level that recovers from an error in a right operand: it      *)
(* returns the expression built so far.                                    *)
BinaryLevelRecovering(fn, next, token_types) ==
    /\ \/ /\ Running(fn, "begin")
          /\ Call([Top EXCEPT !.at = "operand"], next)
          /\ UNCHANGED parser_current
       \/ /\ Running(fn, "operand") \/ Running(fn, "right")
          /\ IF ~result.val.ok
             THEN /\ Return(IF Top.at = "right" THEN ExprOk(Top.expr) ELSE result.val)
                  /\ UNCHANGED parser_current
             ELSE LET expr == Fold(Top, result.val.expr)
                      m    == match_token_type(ParserSelf, token_types)
                  IN  /\ parser_current' = m.p.current
                      /\ IF m.p.panic THEN Panic
                         ELSE IF m.ret
                         THEN Call([Top EXCEPT !.at = "right", !.expr = expr,
                                                !.op = previous(m.p)], next)
                         ELSE Return(ExprOk(expr))
    /\ UNCHANGED parser_tokens
    /\ UNCHANGED scanner_vars

(* equality, comparison, term and factor: a first operand of the next      *)
(* level, then, while the token at the cursor is one of token_types, that  *)
(* operator and a further operand folded into a Binary.                    *)
BinaryLevel(fn, next, token_types) ==
    /\ \/ /\ Running(fn, "begin")
          /\ Call([Top EXCEPT !.at = "operand"], next)
          /\ UNCHANGED parser_current
       \/ /\ Running(fn, "operand") \/ Running(fn, "right")
          /\ IF ~result.val.ok
             THEN /\ Return(result.val)
                  /\ UNCHANGED parser_current
             ELSE LET expr == Fold(Top, result.val.expr)
                      m    == match_token_type(ParserSelf, token_types)
                  IN  /\ parser_current' = m.p.current
                      /\ IF m.p.panic THEN Panic
                         ELSE IF m.ret
                         THEN Call([Top EXCEPT !.at = "right", !.expr = expr,
                                                !.op = previous(m.p)], next)
                         ELSE Return(ExprOk(expr))
    /\ UNCHANGED parser_tokens
    /\ UNCHANGED scanner_vars

equality == BinaryLevel("equality", "comparison", <<"BangEqual", "EqualEqual">>)

comparison ==
    BinaryLevel("comparison", "term", <<"Greater", "GreaterEqual", "Less", "LessEqual">>)

(* term with the operands of comparison: factor is skipped. *)
term_over_unary == BinaryLevel("term", "unary", <<"Minus", "Plus">>)

term == BinaryLevel("term", "factor", <<"Minus", "Plus">>)

factor == BinaryLevel("factor", "unary", <<"Slash", "Star">>)

(* unary taking a primary, not a unary, as the operand of its operator. *)
unary_of_primary ==
    /\ \/ /\ Running("unary", "begin")
          /\ LET m == match_token_type(ParserSelf, <<"Bang", "Minus">>)
             IN  /\ parser_current' = m.p.current
                 /\ IF m.p.panic THEN Panic
                    ELSE IF m.ret
                    THEN Call([Top EXCEPT !.at = "operand", !.op = previous(m.p)], "primary")
                    ELSE /\ stack' = Callers \o <<Frame("primary", "begin")>>
                         /\ UNCHANGED <<result, parser_pc, parsed>>
       \/ /\ Running("unary", "operand")
          /\ IF ~result.val.ok THEN Return(result.val)
             ELSE Return(ExprOk(Unary(Top.op, result.val.expr)))
          /\ UNCHANGED parser_current
    /\ UNCHANGED parser_tokens
    /\ UNCHANGED scanner_vars

unary ==
    /\ \/ /\ Running("unary", "begin")
          /\ LET m == match_token_type(ParserSelf, <<"Bang", "Minus">>)
             IN  /\ parser_current' = m.p.current
                 /\ IF m.p.panic THEN Panic
                    ELSE IF m.ret
                    THEN Call([Top EXCEPT !.at = "operand", !.op = previous(m.p)], "unary")
                    ELSE /\ stack' = Callers \o <<Frame("primary", "begin")>>
                         /\ UNCHANGED <<result, parser_pc, parsed>>
       \/ /\ Running("unary", "operand")
          /\ IF ~result.val.ok THEN Return(result.val)
             ELSE Return(ExprOk(Unary(Top.op, result.val.expr)))
          /\ UNCHANGED parser_current
    /\ UNCHANGED parser_tokens
    /\ UNCHANGED scanner_vars

(* primary reporting the line of the first token of the input instead of  *)
(* the line of the token at the cursor.                                    *)
primary_line_of_first_token ==
    /\ \/ /\ Running("primary", "begin")
          /\ LET m_false  == match_token_type(ParserSelf, <<"False">>)
                 m_true   == match_token_type(m_false.p, <<"True">>)
                 m_nil    == match_token_type(m_true.p, <<"Nil">>)
                 m_lit    == match_token_type(m_nil.p, <<"Number", "Str">>)
                 m_paren  == match_token_type(m_lit.p, <<"LeftParen">>)
             IN  IF m_false.p.panic
                 THEN Panic /\ UNCHANGED parser_current
                 ELSE IF m_false.ret
                 THEN /\ parser_current' = m_false.p.current
                      /\ Return(ExprOk(Literal(LiteralBool(FALSE))))
                 ELSE IF m_true.ret
                 THEN /\ parser_current' = m_true.p.current
                      /\ Return(ExprOk(Literal(LiteralBool(TRUE))))
                 ELSE IF m_nil.ret
                 THEN /\ parser_current' = m_nil.p.current
                      /\ Return(ExprOk(Literal(LiteralNil)))
                 ELSE IF m_lit.ret
                 THEN /\ parser_current' = m_lit.p.current
                      /\ IF previous(m_lit.p).literal = NoLiteral
                         THEN Panic
                         ELSE Return(ExprOk(Literal(previous(m_lit.p).literal)))
                 ELSE IF m_paren.ret
                 THEN /\ parser_current' = m_paren.p.current
                      /\ Call([Top EXCEPT !.at = "group"], "expression")
                 ELSE /\ UNCHANGED parser_current
                      /\ Return(ExprErr(PrimaryError(parser_tokens[1].line)))
       \/ /\ Running("primary", "group")
          /\ IF ~result.val.ok
             THEN /\ Return(result.val)
                  /\ UNCHANGED parser_current
             ELSE LET c == consume(ParserSelf, "RightParen",
                                   "Expected ')' after expression")
                  IN  /\ parser_current' = c.p.current
                      /\ IF c.p.panic THEN Panic
                         ELSE IF c.ret.val.ok
                         THEN Return(ExprOk(Grouping(result.val.expr)))
                         ELSE Return(c.ret.val)
    /\ UNCHANGED parser_tokens
    /\ UNCHANGED scanner_vars

primary ==
    /\ \/ /\ Running("primary", "begin")
          /\ LET m_false  == match_token_type(ParserSelf, <<"False">>)
                 m_true   == match_token_type(m_false.p, <<"True">>)
                 m_nil    == match_token_type(m_true.p, <<"Nil">>)
                 m_lit    == match_token_type(m_nil.p, <<"Number", "Str">>)
                 m_paren  == match_token_type(m_lit.p, <<"LeftParen">>)
             IN  IF m_false.p.panic
                 THEN Panic /\ UNCHANGED parser_current
                 ELSE IF m_false.ret
                 THEN /\ parser_current' = m_false.p.current
                      /\ Return(ExprOk(Literal(LiteralBool(FALSE))))
                 ELSE IF m_true.ret
                 THEN /\ parser_current' = m_true.p.current
                      /\ Return(ExprOk(Literal(LiteralBool(TRUE))))
                 ELSE IF m_nil.ret
                 THEN /\ parser_current' = m_nil.p.current
                      /\ Return(ExprOk(Literal(LiteralNil)))
                 ELSE IF m_lit.ret
                 THEN /\ parser_current' = m_lit.p.current
                      /\ IF previous(m_lit.p).literal = NoLiteral
                         THEN Panic
                         ELSE Return(ExprOk(Literal(previous(m_lit.p).literal)))
                 ELSE IF m_paren.ret
                 THEN /\ parser_current' = m_paren.p.current
                      /\ Call([Top EXCEPT !.at = "group"], "expression")
                 ELSE /\ UNCHANGED parser_current
                      /\ Return(ExprErr(PrimaryError(parser_peek(ParserSelf).line)))
       \/ /\ Running("primary", "group")
          /\ IF ~result.val.ok
             THEN /\ Return(result.val)
                  /\ UNCHANGED parser_current
             ELSE LET c == consume(ParserSelf, "RightParen",
                                   "Expected ')' after expression")
                  IN  /\ parser_current' = c.p.current
                      /\ IF c.p.panic THEN Panic
                         ELSE IF c.ret.val.ok
                         THEN Return(ExprOk(Grouping(result.val.expr)))
                         ELSE Return(c.ret.val)
    /\ UNCHANGED parser_tokens
    /\ UNCHANGED scanner_vars

-----------------------------------------------------------------------------
(* The token sequences Parser::new is given. Token i carries line i.       *)

Atom(token_type, lexeme) ==
    [token |-> token_type, lexeme |-> lexeme, literal |-> NoLiteral]

DigitChar == <<"1", "2", "3", "4", "5", "6", "7", "8", "9">>

NumberAtom(n) ==
    [token |-> "Number", lexeme |-> <<DigitChar[n]>>,
     literal |-> LiteralNumber(<<n, 0>>)]

EofAtom == Atom("EOF", <<Nul>>)

WithLines(atoms) ==
    [i \in 1..Len(atoms) |->
        Token(atoms[i].token, i, atoms[i].lexeme, atoms[i].literal)]

Terminated(atoms) == WithLines(Append(atoms, EofAtom))

(* Any sequence of up to MaxTokens of these tokens (the last one a Number  *)
(* token that carries no literal), with or without EOF after it.           *)
MaxTokens == 4

FreeAtoms ==
    <<NumberAtom(1), Atom("Minus", <<"-">>), Atom("Star", <<"*">>),
      Atom("Bang", <<"!">>), Atom("LeftParen", <<"(">>),
      Atom("RightParen", <<")">>), Atom("Semicolon", <<";">>),
      Atom("Number", <<"1">>)>>

(* Operands 1, 2, ... joined by up to MaxOperators binary operators, two   *)
(* of each precedence level.                                               *)
MaxOperators == 3

ChainOperators ==
    <<Atom("Slash", <<"/">>), Atom("Star", <<"*">>),
      Atom("Minus", <<"-">>), Atom("Plus", <<"+">>),
      Atom("Less", <<"<">>), Atom("LessEqual", <<"<", "=">>),
      Atom("BangEqual", <<"!", "=">>), Atom("EqualEqual", <<"=", "=">>)>>

Chain(ops) ==
    [i \in 1..(2 * Len(ops) + 1) |->
        IF i % 2 = 1 THEN NumberAtom((i + 1) \div 2) ELSE ops[i \div 2]]

(* The inputs of the parser's tests and of the specification's examples:   *)
(* (1 + 2) * 3,  ((1)),  1 + 2 + (5 + 7,  class + 2 + 1,  and a group      *)
(* followed by an operand inside a group: ((1) 2).                         *)
ExampleInputs ==
    {Terminated(<<Atom("LeftParen", <<"(">>), NumberAtom(1), Atom("Plus", <<"+">>),
                  NumberAtom(2), Atom("RightParen", <<")">>), Atom("Star", <<"*">>),
                  NumberAtom(3)>>),
     Terminated(<<Atom("LeftParen", <<"(">>), Atom("LeftParen", <<"(">>),
                  NumberAtom(1), Atom("RightParen", <<")">>),
                  Atom("RightParen", <<")">>)>>),
     Terminated(<<NumberAtom(1), Atom("Plus", <<"+">>), NumberAtom(2),
                  Atom("Plus", <<"+">>), Atom("LeftParen", <<"(">>), NumberAtom(5),
                  Atom("Plus", <<"+">>), NumberAtom(7)>>),
     Terminated(<<Atom("Class", <<"c", "l", "a", "s", "s">>), Atom("Plus", <<"+">>),
                  NumberAtom(2), Atom("Plus", <<"+">>), NumberAtom(1)>>),
     Terminated(<<Atom("LeftParen", <<"(">>), Atom("LeftParen", <<"(">>),
                  NumberAtom(1), Atom("RightParen", <<")">>), NumberAtom(2),
                  Atom("RightParen", <<")">>)>>)}

(* ts is one of the token sequences the parser is run on. *)
IsParserInput(ts) ==
    \/ \E n \in 0..MaxTokens : \E choice \in [1..n -> 1..Len(FreeAtoms)] :
          LET atoms == [i \in 1..n |-> FreeAtoms[choice[i]]]
          IN  ts = Terminated(atoms) \/ ts = WithLines(atoms)
    \/ \E n \in 0..MaxOperators : \E choice \in [1..n -> 1..Len(ChainOperators)] :
          ts = Terminated(Chain([i \in 1..n |-> ChainOperators[choice[i]]]))
    \/ ts \in ExampleInputs

(* Parser::new. The parser's assertions abort in every build profile (the  *)
(* unwrap that follows each debug_assert! fails on the same condition), so *)
(* one profile is enough here.                                             *)
InitParse ==
    /\ debug_assertions = TRUE
    /\ source = <<>>
    /\ tokens = <<>>
    /\ start = 0
    /\ current = 0
    /\ line = 1
    /\ errors = <<>>
    /\ pc = "idle"
    /\ calls = 0
    /\ returned = <<>>
    /\ IsParserInput(parser_tokens)
    /\ parser_current = 0
    /\ stack = <<>>
    /\ result = None
    /\ parser_pc = "new"
    /\ parsed = <<>>

NextParse ==
    \/ new
    \/ parse
    \/ expression
    \/ equality
    \/ comparison
    \/ term
    \/ factor
    \/ unary
    \/ primary

SpecParse == InitParse /\ [][NextParse]_vars

-----------------------------------------------------------------------------
(* Properties of the Scanner *)

(* The character the next iteration of the loop of scan_tokens starts at.  *)
AtLexemeStart == pc = "scanning" /\ ~is_at_end(Self)

StartChar == source[current + 1]

(* The character after the one at the cursor, if any. *)
HasNextChar == current + 1 < Len(source)

NextChar == source[current + 2]

RECURSIVE CountNewlines(_)
CountNewlines(text) ==
    IF text = <<>> THEN 0
    ELSE CountNewlines(Tail(text)) + (IF Head(text) = NL THEN 1 ELSE 0)

FirstReturn == returned[1]

(* C1: the token sequence the first scan_tokens of a Scanner returns ends  *)
(* with a token of kind EOF and holds no other token of kind EOF, whatever *)
(* errors were recorded.                                                   *)
C1_ExactlyOneEofAtEnd ==
    Len(returned) >= 1 =>
        LET ts == FirstReturn.tokens
        IN  /\ Len(ts) >= 1
            /\ ts[Len(ts)].token = "EOF"
            /\ \A i \in 1..(Len(ts) - 1) : ts[i].token # "EOF"

(* A scan that recorded an error and emitted tokens has returned. *)
C1_Witness ==
    /\ Len(returned) >= 1
    /\ Len(FirstReturn.errors) >= 1
    /\ Len(FirstReturn.tokens) >= 2

(* The one-character kinds the specification gives '=', '!', '<', '>'. *)
OneCharToken ==
    "=" :> "Equal" @@ "!" :> "Bang" @@ "<" :> "Less" @@ ">" :> "Greater"

(* C2: a lexeme starting at '=', '!', '<' or '>' yields exactly one token, *)
(* of the two-character kind when '=' follows and of the one-character     *)
(* kind otherwise, and no error.                                           *)
C2_OneOrTwoCharOperator ==
    [][(AtLexemeStart /\ StartChar \in DOMAIN TwoCharToken) =>
          /\ Len(tokens') = Len(tokens) + 1
          /\ SubSeq(tokens', 1, Len(tokens)) = tokens
          /\ tokens'[Len(tokens')].token =
                 IF HasNextChar /\ NextChar = "="
                 THEN TwoCharToken[StartChar] ELSE OneCharToken[StartChar]
          /\ errors' = errors]_vars

(* The character that pairs with c to a two-character lexeme. *)
PairingChar(c) == IF c = "/" THEN "/" ELSE "="

(* C3: when '=', '!', '<', '>' or '/' is followed by a character that is   *)
(* not its pairing character, the lookahead consumes nothing: the lexeme   *)
(* ends after the one character and the next lexeme starts at the          *)
(* following character.                                                    *)
C3_LookaheadDoesNotConsume ==
    [][(/\ AtLexemeStart
        /\ StartChar \in DOMAIN TwoCharToken \cup {"/"}
        /\ HasNextChar
        /\ NextChar # PairingChar(StartChar)) => current' = current + 1]_vars

(* C4: after scan_tokens the line counter, and the line of the EOF token,  *)
(* is the number of newline characters of the source plus one.             *)
C4_EofLineCountsNewlines ==
    Len(returned) >= 1 =>
        LET ts == FirstReturn.tokens
        IN  /\ ts[Len(ts)].line = CountNewlines(source) + 1
            /\ line = CountNewlines(source) + 1

(* The characters of an identifier, by the specification. *)
IdentifierChars == Letters \cup Digits \cup {"_"}

(* The end (exclusive, 0-based) of the maximal run of identifier           *)
(* characters that starts at offset from.                                  *)
RECURSIVE RunEnd(_, _)
RunEnd(text, from) ==
    IF from < Len(text) /\ text[from + 1] \in IdentifierChars
    THEN RunEnd(text, from + 1) ELSE from

(* C5: a lexeme starting at a letter or '_' yields exactly one token whose *)
(* lexeme is the whole maximal run of letters, digits and '_'.             *)
C5_IdentifierMaximalMunch ==
    [][(AtLexemeStart /\ StartChar \in Letters \cup {"_"}) =>
          /\ Len(tokens') = Len(tokens) + 1
          /\ tokens'[Len(tokens')].lexeme =
                 SubSeq(source, current + 1, RunEnd(source, current))
          /\ current' = RunEnd(source, current)]_vars

(* The characters that start a lexical rule. *)
RuleStart ==
    DOMAIN SingleCharToken \cup DOMAIN TwoCharToken \cup {"/", Quote}
        \cup Digits \cup Letters \cup {"_", " ", "\r", "\t", NL}

(* One UnexpectedToken error for every character of text that starts no   *)
(* rule, in source order, each with the line it stands on.                 *)
RECURSIVE UnexpectedTokensOf(_, _)
UnexpectedTokensOf(text, ln) ==
    IF text = <<>> THEN <<>>
    ELSE (IF Head(text) \in RuleStart THEN <<>>
          ELSE <<UnexpectedToken(<<Head(text)>>, ln)>>)
         \o UnexpectedTokensOf(Tail(text), IF Head(text) = NL THEN ln + 1 ELSE ln)

HasStringOrComment == \E i \in 1..Len(source) : source[i] \in {Quote, "/"}

(* C9: every character that starts no lexical rule yields exactly one      *)
(* UnexpectedToken error with that character and its line, in source       *)
(* order; stated for the sources without a string or a comment, where all  *)
(* errors are of this kind and no such character lies inside a lexeme.     *)
C9_OneErrorPerUnrecognisedChar ==
    (Len(returned) >= 1 /\ ~HasStringOrComment) =>
        FirstReturn.errors = UnexpectedTokensOf(source, 1)

(* No closing quote after the opening quote at the cursor. *)
NoClosingQuote == \A i \in (current + 2)..Len(source) : source[i] # Quote

LastErrorIsUnterminated ==
    Len(errors) >= 1 /\ errors[Len(errors)].type = "UnterminatedString"

(* C10: a string lexeme that is opened and not closed before the end of    *)
(* input emits no token and records exactly one UnterminatedString error,  *)
(* the tokens scanned before are kept, and the scan then completes by      *)
(* appending EOF.                                                          *)
C10_UnterminatedString ==
    [][/\ (AtLexemeStart /\ StartChar = Quote /\ NoClosingQuote) =>
              /\ tokens' = tokens
              /\ errors' = Append(errors, UnterminatedString(
                     line + CountNewlines(SubSeq(source, current + 2, Len(source)))))
              /\ current' = Len(source)
              /\ pc' = "scanning"
       /\ (pc = "scanning" /\ is_at_end(Self) /\ LastErrorIsUnterminated) =>
              /\ tokens' = Append(tokens, EofToken(line))
              /\ errors' = errors
              /\ pc' = "idle"
              /\ calls' = calls + 1]_vars

(* A scan that kept a token, hit an unterminated string and returned. *)
C10_Witness ==
    /\ Len(returned) >= 1
    /\ Len(FirstReturn.errors) = 1
    /\ FirstReturn.errors[1].type = "UnterminatedString"
    /\ Len(FirstReturn.tokens) >= 2
    /\ FirstReturn.tokens[Len(FirstReturn.tokens)].token = "EOF"

(* The 1-based line of the character at 0-based offset: one plus the       *)
(* number of newline characters before it.                                 *)
LineOfOffset(offset) == 1 + CountNewlines(SubSeq(source, 1, offset))

(* The loop iteration that starts at the cursor emits a token. *)
EmitsToken == AtLexemeStart /\ Len(tokens') = Len(tokens) + 1

(* C13: every token the scanner emits carries the line of the first        *)
(* character of its lexeme, a string literal over several lines included.  *)
C13_TokenLineIsLineOfFirstChar ==
    [][EmitsToken => tokens'[Len(tokens')].line = LineOfOffset(current)]_vars

(* The offset of the first quote after the opening quote at the cursor.    *)
ClosingQuote ==
    CHOOSE i \in (current + 1)..(Len(source) - 1) :
        /\ source[i + 1] = Quote
        /\ \A j \in (current + 1)..(i - 1) : source[j + 1] # Quote

(* The text strictly between the quotes. *)
StringText == SubSeq(source, current + 2, ClosingQuote)

(* C14: a string lexeme with a closing quote yields exactly one Str token, *)
(* its lexeme the text from quote to quote inclusive, its literal the text *)
(* strictly between the quotes (empty for two adjacent quotes), no error,  *)
(* and line grows by the number of newlines inside the string.             *)
C14_TerminatedString ==
    [][(AtLexemeStart /\ StartChar = Quote /\ ~NoClosingQuote) =>
          /\ pc' = "scanning"
          /\ Len(tokens') = Len(tokens) + 1
          /\ SubSeq(tokens', 1, Len(tokens)) = tokens
          /\ tokens'[Len(tokens')].token = "Str"
          /\ tokens'[Len(tokens')].lexeme = SubSeq(source, current + 1, ClosingQuote + 1)
          /\ tokens'[Len(tokens')].literal = LiteralStr(StringText)
          /\ errors' = errors
          /\ current' = ClosingQuote + 1
          /\ line' = line + CountNewlines(StringText)]_vars

(* The end (exclusive, 0-based) of the maximal run of digits that starts   *)
(* at offset from.                                                         *)
RECURSIVE DigitsEnd(_, _)
DigitsEnd(text, from) ==
    IF from < Len(text) /\ text[from + 1] \in Digits
    THEN DigitsEnd(text, from + 1) ELSE from

(* The end of the number lexeme that starts at offset from: the digits,    *)
(* and a '.' with the digits after it when a digit follows the '.'.        *)
NumberEnd(text, from) ==
    LET e == DigitsEnd(text, from)
    IN  IF e + 1 < Len(text) /\ text[e + 1] = "." /\ text[e + 2] \in Digits
        THEN DigitsEnd(text, e + 1) ELSE e

(* C15: a lexeme starting at a digit yields exactly one Number token and   *)
(* no error; its lexeme is the maximal run of digits, with a '.' and the   *)
(* digits after it only when a digit follows the '.', and its literal is   *)
(* the value of that lexeme. A '.' that is not absorbed is left at the     *)
(* cursor.                                                                 *)
C15_NumberLexeme ==
    [][(AtLexemeStart /\ StartChar \in Digits) =>
          LET lexeme == SubSeq(source, current + 1, NumberEnd(source, current))
          IN  /\ Len(tokens') = Len(tokens) + 1
              /\ SubSeq(tokens', 1, Len(tokens)) = tokens
              /\ tokens'[Len(tokens')].token = "Number"
              /\ tokens'[Len(tokens')].lexeme = lexeme
              /\ tokens'[Len(tokens')].literal = LiteralNumber(ParseF64(lexeme).val)
              /\ errors' = errors
              /\ current' = NumberEnd(source, current)
              /\ pc' = "scanning"]_vars

(* 1.2.3 has been scanned as Number 1.2, Dot, Number 3 and EOF. *)
C15_Witness ==
    /\ source = <<"1", ".", "2", ".", "3">>
    /\ Len(returned) >= 1
    /\ FirstReturn.errors = <<>>
    /\ [i \in 1..Len(FirstReturn.tokens) |->
           <<FirstReturn.tokens[i].token, FirstReturn.tokens[i].lexeme,
             FirstReturn.tokens[i].literal>>]
        = << <<"Number", <<"1", ".", "2">>, LiteralNumber(<<12, 1>>)>>,
             <<"Dot", <<".">>, NoLiteral>>,
             <<"Number", <<"3">>, LiteralNumber(<<3, 0>>)>>,
             <<"EOF", <<Nul>>, NoLiteral>> >>

(* The 16 reserved words with their kinds. *)
ReservedWords ==
    {<<"and", "And">>, <<"class", "Class">>, <<"else", "Else">>,
     <<"false", "False">>, <<"for", "For">>, <<"fun", "Fun">>, <<"if", "If">>,
     <<"nil", "Nil">>, <<"or", "Or">>, <<"print", "Print">>,
     <<"return", "Return">>, <<"super", "Super">>, <<"this", "This">>,
     <<"true", "True">>, <<"var", "Var">>, <<"while", "While">>}

(* The characters of a lexeme as one string. *)
RECURSIVE Spelled(_)
Spelled(chars) ==
    IF chars = <<>> THEN "" ELSE Head(chars) \o Spelled(Tail(chars))

(* The kind an identifier lexeme is to be emitted with: the kind of the    *)
(* reserved word it spells, Identifier when it spells none.                *)
KindOfWord(chars) ==
    IF \E w \in ReservedWords : w[1] = Spelled(chars)
    THEN (CHOOSE w \in ReservedWords : w[1] = Spelled(chars))[2]
    ELSE "Identifier"

(* C16: the token of a lexeme that starts at a letter or '_' has the kind  *)
(* of the reserved word its full text equals, and the kind Identifier when *)
(* its text is no reserved word.                                           *)
C16_KeywordExactness ==
    [][(AtLexemeStart /\ StartChar \in Letters \cup {"_"}) =>
          /\ Len(tokens') = Len(tokens) + 1
          /\ tokens'[Len(tokens')].token = KindOfWord(tokens'[Len(tokens')].lexeme)
          /\ tokens'[Len(tokens')].lexeme =
                 SubSeq(source, current + 1, current + Len(tokens'[Len(tokens')].lexeme))
          /\ errors' = errors]_vars

(* whilex has been scanned as one Identifier. *)
C16_Witness ==
    /\ source = <<"w", "h", "i", "l", "e", "x">>
    /\ Len(returned) >= 1
    /\ Len(FirstReturn.tokens) = 2
    /\ FirstReturn.tokens[1].token = "Identifier"
    /\ FirstReturn.tokens[1].lexeme = source

(* The offset of the first newline at or after offset from, the length of  *)
(* the text when there is none.                                            *)
RECURSIVE LineEnd(_, _)
LineEnd(text, from) ==
    IF from < Len(text) /\ text[from + 1] # NL THEN LineEnd(text, from + 1) ELSE from

(* C17: a lexeme that starts with two slashes consumes every character up  *)
(* to, and not including, the next newline or the end of input, emits no   *)
(* token and records no error, and keeps the tokens scanned before; the    *)
(* newline, scanned next, increments the line counter.                     *)
C17_LineComment ==
    [][/\ (AtLexemeStart /\ StartChar = "/" /\ HasNextChar /\ NextChar = "/") =>
              /\ current' = LineEnd(source, current)
              /\ tokens' = tokens
              /\ errors' = errors
              /\ line' = line
              /\ pc' = "scanning"
       /\ (AtLexemeStart /\ StartChar = NL) =>
              /\ current' = current + 1
              /\ line' = line + 1
              /\ tokens' = tokens
              /\ errors' = errors]_vars

(* A token, a comment, a newline and a token have been scanned: the two    *)
(* tokens are kept and the second one stands on line 2.                    *)
C17_Witness ==
    /\ source = <<"<", "=", " ", "/", "/", " ", "c", "\n", "1">>
    /\ Len(returned) >= 1
    /\ FirstReturn.errors = <<>>
    /\ [i \in 1..Len(FirstReturn.tokens) |->
           <<FirstReturn.tokens[i].token, FirstReturn.tokens[i].line>>]
        = << <<"LessEqual", 1>>, <<"Number", 2>>, <<"EOF", 2>> >>

(* C23: no call of get_source_slice made by a loop iteration fails: the    *)
(* scan does not abort, and the slice add_string_token takes for the value *)
(* of a string, from start + 1 to current - 1, has start < end.            *)
C23_SourceSliceNeverFails ==
    [][AtLexemeStart =>
          /\ pc' # "panicked"
          /\ (StartChar = Quote /\ ~NoClosingQuote) => current + 1 < current' - 1]_vars

(* C24: scan_tokens terminates. While a call of scan_tokens runs, a step   *)
(* taken with current before the end of the source is an iteration that    *)
(* strictly increases current and keeps start <= current <= length; a step *)
(* taken with current at the end of the source returns; and no step        *)
(* records an UnexpectedEof. The distance from current to the end of the   *)
(* source is the measure that bounds the number of iterations.             *)
C24_ScanTerminates ==
    [][pc = "scanning" =>
          /\ \A i \in 1..Len(errors') : errors'[i].type # "UnexpectedEof"
          /\ IF current < Len(source)
             THEN /\ current' > current
                  /\ start' <= current'
                  /\ current' <= Len(source)
             ELSE /\ current = Len(source)
                  /\ pc' = "idle"
                  /\ Len(returned') = Len(returned) + 1]_vars

(* A scan of a source of three lexemes has returned, each iteration having *)
(* moved the cursor on.                                                    *)
C24_Witness ==
    /\ Len(returned) >= 1
    /\ Len(FirstReturn.tokens) = 4
    /\ current = Len(source)
    /\ Len(source) >= 3

(* The unwrap of Parser::primary fails on this token: primary takes the    *)
(* literal of a token of kind Number or Str.                               *)
UnwrapFails(t) == t.token \in {"Number", "Str"} /\ t.literal = NoLiteral

(* C25: in every token sequence scan_tokens returns, a token has a literal *)
(* exactly when its kind is Str or Number, the literal of a Str token is a *)
(* Str and that of a Number token a Number, every token but EOF has a      *)
(* lexeme of at least one character, and so no token makes the unwrap of   *)
(* primary fail.                                                           *)
C25_LiteralsAndLexemes ==
    \A k \in 1..Len(returned) :
        \A i \in 1..Len(returned[k].tokens) :
            LET t == returned[k].tokens[i]
            IN  /\ t.literal # NoLiteral <=> t.token \in {"Str", "Number"}
                /\ t.literal # NoLiteral => t.literal.type = t.token
                /\ t.token # "EOF" => Len(t.lexeme) >= 1
                /\ ~UnwrapFails(t)

(* A returned sequence holds a Str token, a Number token and a token       *)
(* without literal.                                                        *)
C25_Witness ==
    /\ Len(returned) >= 1
    /\ \E i, j, k \in 1..Len(FirstReturn.tokens) :
           /\ FirstReturn.tokens[i].token = "Str"
           /\ FirstReturn.tokens[j].token = "Number"
           /\ FirstReturn.tokens[k].token \notin {"Str", "Number", "EOF"}

(* C27: a second scan_tokens on the same Scanner returns the token         *)
(* sequence and the error sequence the first one returned.                 *)
C27_ScanIsRepeatable ==
    Len(returned) >= 2 => returned[2] = returned[1]

-----------------------------------------------------------------------------
(* Properties of the Parser *)

ParseDone == parser_pc = "done"

ParsedOk == ParseDone /\ result.val.ok

(* primary has parsed the expression after a '(' and stands before the     *)
(* token that should close the group.                                      *)
AtGroupClose == Running("primary", "group") /\ result.val.ok

(* C6: a group is consumed as exactly '(' expression ')': when ')' stands  *)
(* at the cursor after the inner expression, primary returns               *)
(* Grouping(inner) with the cursor on the token right after that ')'.      *)
C6_GroupConsumesOneParen ==
    [][(AtGroupClose /\ parser_peek(ParserSelf).token = "RightParen") =>
          /\ parser_current' = parser_current + 1
          /\ result' = Some(ExprOk(Grouping(result.val.expr)))]_vars

(* The precedence level of a binary operator: the higher, the tighter.     *)
Level(token_type) ==
    IF token_type \in {"BangEqual", "EqualEqual"} THEN 1
    ELSE IF token_type \in {"Greater", "GreaterEqual", "Less", "LessEqual"} THEN 2
    ELSE IF token_type \in {"Minus", "Plus"} THEN 3
    ELSE 4

(* The tokens are operands joined by binary operators, then EOF.           *)
IsChain(ts) ==
    /\ Len(ts) % 2 = 0
    /\ ts[Len(ts)].token = "EOF"
    /\ \A i \in 1..(Len(ts) - 1) :
          IF i % 2 = 1 THEN ts[i].token = "Number" /\ ts[i].literal # NoLiteral
          ELSE \E k \in 1..Len(ChainOperators) : ts[i].token = ChainOperators[k].token

(* The operands (their literal values) and operator tokens of a tree, in   *)
(* order from left to right.                                               *)
RECURSIVE InOrder(_)
InOrder(expr) ==
    IF expr.type = "Binary"
    THEN InOrder(expr.left) \o <<expr.operator>> \o InOrder(expr.right)
    ELSE <<expr>>

(* What InOrder gives for the tree of the whole chain. *)
ChainInOrder(ts) ==
    [i \in 1..(Len(ts) - 1) |-> IF i % 2 = 1 THEN Literal(ts[i].literal) ELSE ts[i]]

(* No Binary node has a Binary child of a looser level.                    *)
RECURSIVE NestedByPrecedence(_)
NestedByPrecedence(expr) ==
    expr.type = "Binary" =>
        /\ \A child \in {expr.left, expr.right} :
              child.type = "Binary" =>
                  Level(child.operator.token) >= Level(expr.operator.token)
        /\ NestedByPrecedence(expr.left)
        /\ NestedByPrecedence(expr.right)

(* C7: the tree of a parenthesis-free chain of operands and binary         *)
(* operators holds all its operands and operators in their order, and in   *)
(* it no operator is the parent of an operator of a looser level.          *)
C7_Precedence ==
    (ParseDone /\ IsChain(parser_tokens)) =>
        /\ result.val.ok
        /\ InOrder(result.val.expr) = ChainInOrder(parser_tokens)
        /\ NestedByPrecedence(result.val.expr)

(* 1 + 2 * 3 has been parsed with the product as right operand of "+". *)
C7_Witness ==
    /\ ParsedOk
    /\ parser_tokens = Terminated(Chain(<<Atom("Plus", <<"+">>), Atom("Star", <<"*">>)>>))
    /\ result.val.expr =
           Binary(Literal(parser_tokens[1].literal), parser_tokens[2],
                  Binary(Literal(parser_tokens[3].literal), parser_tokens[4],
                         Literal(parser_tokens[5].literal)))

(* The right child of a Binary node is a single operand of the next-higher *)
(* level: never a Binary of the node's own (or a looser) level.            *)
RECURSIVE RightOperandsTighter(_)
RightOperandsTighter(expr) ==
    expr.type = "Binary" =>
        /\ expr.right.type = "Binary" =>
              Level(expr.right.operator.token) > Level(expr.operator.token)
        /\ RightOperandsTighter(expr.left)
        /\ RightOperandsTighter(expr.right)

(* Binary(Binary(Binary(a, op, b), op, c), op, d) of the chain's first n   *)
(* tokens (n odd).                                                         *)
RECURSIVE LeftNested(_, _)
LeftNested(ts, n) ==
    IF n = 1 THEN Literal(ts[1].literal)
    ELSE Binary(LeftNested(ts, n - 2), ts[n - 1], Literal(ts[n].literal))

OneLevel(ts) ==
    \A i, j \in 1..(Len(ts) - 1) :
        (i % 2 = 0 /\ j % 2 = 0) => Level(ts[i].token) = Level(ts[j].token)

(* C8: binary operators of one level nest leftward: the tree of a chain of *)
(* one level is Binary(Binary(a, op, b), op, c), and in every chain the    *)
(* right child of a Binary node is an operand of a tighter level.          *)
C8_LeftAssociative ==
    (ParseDone /\ IsChain(parser_tokens)) =>
        /\ result.val.ok
        /\ RightOperandsTighter(result.val.expr)
        /\ OneLevel(parser_tokens) =>
               result.val.expr = LeftNested(parser_tokens, Len(parser_tokens) - 1)

(* 1 - 2 - 3 has been parsed with the first difference as left operand. *)
C8_Witness ==
    /\ ParsedOk
    /\ parser_tokens = Terminated(Chain(<<Atom("Minus", <<"-">>), Atom("Minus", <<"-">>)>>))
    /\ result.val.expr =
           Binary(Binary(Literal(parser_tokens[1].literal), parser_tokens[2],
                         Literal(parser_tokens[3].literal)),
                  parser_tokens[4], Literal(parser_tokens[5].literal))

(* The grammar of the specification, as a recogniser over an               *)
(* EOF-terminated token sequence: the index of the token after the         *)
(* expression (unary, primary) that starts at token i, or 0 when none      *)
(* starts there. Every binary level is operand (operator operand)*, so the *)
(* extent of an expression does not depend on the levels.                  *)
BinaryOperators ==
    {"BangEqual", "EqualEqual", "Greater", "GreaterEqual", "Less", "LessEqual",
     "Minus", "Plus", "Slash", "Star"}

RECURSIVE GrammarExpression(_, _)
RECURSIVE GrammarUnary(_, _)
RECURSIVE GrammarPrimary(_, _)
GrammarPrimary(ts, i) ==
    IF i > Len(ts) THEN 0
    ELSE IF ts[i].token \in {"False", "True", "Nil", "Number", "Str"} THEN i + 1
    ELSE IF ts[i].token = "LeftParen"
    THEN LET e == GrammarExpression(ts, i + 1)
         IN  IF e # 0 /\ e <= Len(ts) /\ ts[e].token = "RightParen" THEN e + 1 ELSE 0
    ELSE 0

GrammarUnary(ts, i) ==
    IF i > Len(ts) THEN 0
    ELSE IF ts[i].token \in {"Bang", "Minus"} THEN GrammarUnary(ts, i + 1)
    ELSE GrammarPrimary(ts, i)

GrammarExpression(ts, i) ==
    LET u == GrammarUnary(ts, i)
    IN  IF u = 0 \/ u > Len(ts) THEN u
        ELSE IF ts[u].token \in BinaryOperators THEN GrammarExpression(ts, u + 1)
        ELSE u

IsTerminated(ts) ==
    /\ Len(ts) >= 1
    /\ \A i \in 1..Len(ts) : ts[i].token = "EOF" <=> i = Len(ts)

(* The input opens with a group whose expression is there and is followed  *)
(* by a token other than ')'.                                              *)
FirstGroupUnclosed(ts) ==
    /\ IsTerminated(ts)
    /\ ts[1].token = "LeftParen"
    /\ LET e == GrammarExpression(ts, 2)
       IN  e # 0 /\ ts[e].token # "RightParen"

(* C11: when the expression that follows the '(' the input opens with is   *)
(* followed by a token other than ')' (EOF included), parse returns        *)
(* Err(ParseError) and no tree.                                            *)
C11_UnclosedGroupIsParseError ==
    (ParseDone /\ FirstGroupUnclosed(parser_tokens)) =>
        /\ ~result.val.ok
        /\ result.val.error.type = "ParseError"

(* The kinds of token a primary starts with. *)
PrimaryStart == {"False", "True", "Nil", "Number", "Str", "LeftParen"}

(* A call has returned an error that its caller has yet to pass on. *)
ErrorPending(type) ==
    /\ parser_pc = "running"
    /\ result.some
    /\ ~result.val.ok
    /\ result.val.error.type = type

(* C12: when primary is entered with a token at the cursor that starts no  *)
(* primary (EOF included), it returns PrimaryError with the line of that   *)
(* token, and every caller up to parse returns this error unchanged.       *)
C12_PrimaryErrorAtCursor ==
    [][/\ (Running("primary", "begin")
            /\ parser_peek(ParserSelf).token \notin PrimaryStart) =>
              /\ result' = Some(ExprErr(PrimaryError(parser_tokens[parser_current + 1].line)))
              /\ parser_current' = parser_current
       /\ ErrorPending("PrimaryError") =>
              /\ result' = result
              /\ stack' = Callers
              /\ parser_pc' = IF Callers = <<>> THEN "done" ELSE "running"]_vars

(* An operator with no right operand: parse has returned PrimaryError with *)
(* the line of the EOF token, the third token or a later one.              *)
C12_Witness ==
    /\ ParseDone
    /\ Len(parser_tokens) >= 3
    /\ parser_tokens[Len(parser_tokens)].token = "EOF"
    /\ parser_current = Len(parser_tokens) - 1
    /\ result = Some(ExprErr(PrimaryError(Len(parser_tokens))))

PrefixOperators == {"Bang", "Minus"}

(* Tokens from to upto are prefix operators followed by one Number token   *)
(* that carries its literal.                                               *)
IsUnaryChain(ts, from, upto) ==
    /\ from <= upto
    /\ \A i \in from..(upto - 1) : ts[i].token \in PrefixOperators
    /\ ts[upto].token = "Number"
    /\ ts[upto].literal # NoLiteral

(* Unary(op1, Unary(op2, ... Literal)) of the tokens from i to upto.       *)
RECURSIVE NestedUnary(_, _, _)
NestedUnary(ts, i, upto) ==
    IF i = upto THEN Literal(ts[i].literal)
    ELSE Unary(ts[i], NestedUnary(ts, i + 1, upto))

(* C18: prefix operators followed by a primary parse to Unary nodes nested *)
(* in token order, the first token outermost; and when two such operands   *)
(* are joined by a binary operator (here '*'), the Binary node has the two *)
(* Unary chains as its children.                                           *)
C18_UnaryNesting ==
    (ParseDone /\ IsTerminated(parser_tokens)) =>
        LET ts == parser_tokens
            n  == Len(ts) - 1
        IN  /\ IsUnaryChain(ts, 1, n) =>
                   result = Some(ExprOk(NestedUnary(ts, 1, n)))
            /\ \A m \in 2..(n - 1) :
                   (/\ ts[m].token = "Star"
                    /\ IsUnaryChain(ts, 1, m - 1)
                    /\ IsUnaryChain(ts, m + 1, n)) =>
                       result = Some(ExprOk(Binary(NestedUnary(ts, 1, m - 1), ts[m],
                                                   NestedUnary(ts, m + 1, n))))

(* The tokens ! - 1 have been parsed to Unary(!, Unary(-, 1)).             *)
C18_Witness ==
    /\ ParsedOk
    /\ Len(parser_tokens) = 4
    /\ parser_tokens[1].token = "Bang"
    /\ parser_tokens[2].token = "Minus"
    /\ result.val.expr =
           Unary(parser_tokens[1], Unary(parser_tokens[2], Literal(parser_tokens[3].literal)))

(* The call that returned last has returned an error. *)
ErrorRaised == result.some /\ ~result.val.ok

(* C19: the step that raises an error leaves the cursor where it is, and   *)
(* from then on every step passes exactly this error to the caller without *)
(* consuming a token, until parse returns it: no tree is returned and no   *)
(* later error replaces it.                                                *)
C19_FailFast ==
    [][/\ (result'.some /\ ~result'.val.ok) => parser_current' = parser_current
       /\ (parser_pc = "running" /\ ErrorRaised) =>
              /\ result' = result
              /\ stack' = Callers
              /\ parser_pc' = IF Callers = <<>> THEN "done" ELSE "running"]_vars

(* parse has returned the PrimaryError of the first ';' of 1 * ; ; with    *)
(* the cursor still on that token.                                         *)
C19_Witness ==
    /\ ParseDone
    /\ Len(parser_tokens) = 5
    /\ parser_tokens[2].token = "Star"
    /\ parser_tokens[3].token = "Semicolon"
    /\ parser_tokens[4].token = "Semicolon"
    /\ parser_current = 2
    /\ result = Some(ExprErr(PrimaryError(3)))

(* C20: when primary is entered with a Number or Str token at the cursor   *)
(* that carries no literal, it returns UndefinedLiteral with the line of   *)
(* that token, as a value: the process does not abort.                     *)
C20_UndefinedLiteralIsReturned ==
    [][(/\ Running("primary", "begin")
        /\ parser_peek(ParserSelf).token \in {"Number", "Str"}
        /\ parser_peek(ParserSelf).literal = NoLiteral) =>
          /\ parser_pc' # "panicked"
          /\ result' = Some(ExprErr(UndefinedLiteral(parser_peek(ParserSelf).line)))]_vars

(* C21: no step of a parse changes a token, and every parse of one token   *)
(* sequence with a new Parser returns the same result, tree or error.      *)
C21_ParseIsRepeatable ==
    [][/\ parser_tokens' = parser_tokens
       /\ \A i \in 1..Len(parsed') : parsed'[i] = parsed'[1]]_vars

(* A sequence of tokens has been parsed twice to a tree with a Binary      *)
(* node at its root.                                                       *)
C21_Witness ==
    /\ Len(parsed) = 2
    /\ parsed[2].ok
    /\ parsed[2].expr.type = "Binary"
    /\ parsed[1] = parsed[2]

(* primary stands on a Number or Str token that carries no literal: the    *)
(* one abort of the parser that is no failed index of peek or previous.    *)
AtLiteralWithoutValue ==
    /\ Running("primary", "begin")
    /\ parser_peek(ParserSelf).token \in {"Number", "Str"}
    /\ parser_peek(ParserSelf).literal = NoLiteral

(* C22: during a parse of a non-empty token sequence whose only EOF is its *)
(* last element, current never decreases and never exceeds the index of    *)
(* the EOF token, advance leaves current unchanged when the token at the   *)
(* cursor is EOF, and no call of peek or previous indexes outside the      *)
(* tokens.                                                                 *)
C22_CursorInvariant ==
    [][(IsTerminated(parser_tokens) /\ parser_pc \in {"new", "running"}) =>
          /\ parser_current' >= parser_current
          /\ parser_current' <= Len(parser_tokens) - 1
          /\ parser_peek(ParserSelf).token = "EOF" =>
                 parser_advance(ParserSelf).current = parser_current
          /\ parser_pc' = "panicked" => AtLiteralWithoutValue]_vars

(* The group ( 1 ) has been parsed: after the ')' was passed the cursor    *)
(* stands on EOF, where the second advance of consume has left it.         *)
C22_Witness ==
    /\ ParsedOk
    /\ Len(parser_tokens) = 4
    /\ parser_tokens[1].token = "LeftParen"
    /\ parser_tokens[3].token = "RightParen"
    /\ parser_tokens[4].token = "EOF"
    /\ parser_current = 3
    /\ result.val.expr.type = "Grouping"

(* The number of tokens a tree is built from. *)
RECURSIVE TokensOf(_)
TokensOf(expr) ==
    IF expr.type = "Binary" THEN TokensOf(expr.left) + 1 + TokensOf(expr.right)
    ELSE IF expr.type = "Unary" THEN 1 + TokensOf(expr.right)
    ELSE IF expr.type = "Grouping" THEN 2 + TokensOf(expr.inner)
    ELSE 1

(* The index of the token behind the expression the tokens open with, when *)
(* that token is there and is not EOF (it is no binary operator, or the    *)
(* expression would go on); 0 otherwise.                                   *)
FollowingToken(ts) ==
    LET e == GrammarExpression(ts, 1)
    IN  IF e # 0 /\ e <= Len(ts) /\ ts[e].token # "EOF" THEN e ELSE 0

(* C26: when the tokens open with a complete expression that is followed   *)
(* by a token which cannot continue it, parse returns Ok with a tree built *)
(* from exactly the tokens of that expression, and the cursor is left at   *)
(* the token that follows.                                                 *)
C26_ParsesExpressionPrefix ==
    (parser_pc = "done" /\ FollowingToken(parser_tokens) # 0) =>
        /\ result.val.ok
        /\ TokensOf(result.val.expr) = FollowingToken(parser_tokens) - 1
        /\ parser_current = FollowingToken(parser_tokens) - 1

====
